---------------------------- MODULE Spec2Model ----------------------------
(***************************************************************************)
(* A model of the requirement/credit reconciliation engine of the KU GPA   *)
(* calculator (src/app.py): the grade scale, the requirement profile and   *)
(* its mutations, the retake resolver, calculate_with_overflow and the     *)
(* Streamlit script run that surrounds them.                               *)
(*                                                                         *)
(* The source's Korean labels cannot be written in a TLA+ string, so each  *)
(* label is spelled in ASCII; the correspondence is fixed here:            *)
(*   CommonGE = gongtong-gyoyang, CoreGE = haeksim-gyoyang,                *)
(*   MajorReq = jeongong-pilsu, MajorElec = jeongong-seontaek,             *)
(*   GeneralElec = ilban-seontaek (the catch-all), Advanced = simhwa-      *)
(*   jeongong, Total = chonggye (the grand total),                         *)
(*   DoubleReq/DoubleElec = boksu-jeongong pilsu/seontaek,                 *)
(*   DualReq/DualElec = ijung-jeongong pilsu/seontaek,                     *)
(*   Foundations = hakmun-ui-gicho, Teaching = gyojik;                     *)
(*   tracks: Advanced, Double (boksu-jeongong), Dual (ijung-jeongong);     *)
(*   terms: T1 = 1-hakgi, T2 = 2-hakgi, Summer = yeoreum, Winter = gyeoul. *)
(* Grade points are held in tenths (A+ = 45) and credits as integers, so   *)
(* a quotient of the source is a pair <<numerator, denominator>>.          *)
(***************************************************************************)
EXTENDS Integers, Sequences, FiniteSets, TLC

VARIABLES
    major_type,           \* st.session_state.major_type
    custom_categories,    \* st.session_state.custom_categories (a list)
    custom_requirements,  \* st.session_state.custom_requirements: category -> required
    courses,              \* st.session_state.courses (the stored course table)
    major_type_changing,  \* st.session_state.major_type_changing
    skip_integrity_check, \* st.session_state.skip_integrity_check
    csv_import_just_completed, \* st.session_state.csv_import_just_completed
    report,               \* what the last interaction showed the user
    fn_input,             \* the argument of a function applied on its own
    fn_result             \* and what it returned

vars == <<major_type, custom_categories, custom_requirements, courses,
          major_type_changing, skip_integrity_check, csv_import_just_completed,
          report, fn_input, fn_result>>

session_vars == <<major_type, custom_categories, custom_requirements, courses,
                  major_type_changing, skip_integrity_check,
                  csv_import_just_completed, report>>

fn_vars == <<fn_input, fn_result>>

---------------------------------------------------------------------------
(* Bounds of the model. *)

MaxCourses == 2     \* rows of the stored course table
MaxLen == 3         \* rows of a table handed to a function on its own

---------------------------------------------------------------------------
(* 1. Reference data. *)

None == -1          \* Python's None / pandas' NaN in a numeric column

\* a scale on which the pass markers carry zero grade points
GRADE_MAP_45_pass_as_zero ==
    ("A+" :> 45) @@ ("A0" :> 40) @@ ("B+" :> 35) @@ ("B0" :> 30) @@
    ("C+" :> 25) @@ ("C0" :> 20) @@ ("D+" :> 15) @@ ("D0" :> 10) @@
    ("F" :> 0) @@ ("P" :> 0) @@ ("NP" :> 0)

GRADE_MAP_45 ==
    ("A+" :> 45) @@ ("A0" :> 40) @@ ("B+" :> 35) @@ ("B0" :> 30) @@
    ("C+" :> 25) @@ ("C0" :> 20) @@ ("D+" :> 15) @@ ("D0" :> 10) @@
    ("F" :> 0) @@ ("P" :> None) @@ ("NP" :> None)

GRADE_OPTIONS == DOMAIN GRADE_MAP_45

\* Series.map(GRADE_MAP_45): a symbol outside the scale maps to NaN.
GradePoint(grade) ==
    IF grade \in DOMAIN GRADE_MAP_45 THEN GRADE_MAP_45[grade] ELSE None

MAJOR_TYPE_OPTIONS == <<"Advanced", "Double", "Dual">>

BASE_CATEGORIES == <<"CommonGE", "CoreGE", "MajorReq", "MajorElec", "GeneralElec">>

TERM_OPTIONS == <<"T1", "T2", "Summer", "Winter">>

CREDIT_OPTIONS == <<3, 2, 1>>

\* The order pandas sorts the term labels in: by code point, where the digits
\* come first and gyeoul (Winter, U+ACA8) precedes yeoreum (Summer, U+C5EC).
TermLabelRank(term) ==
    CASE term = "T1" -> 1
      [] term = "T2" -> 2
      [] term = "Winter" -> 3
      [] term = "Summer" -> 4

\* Course titles of the model, in the order groupby sorts them ("" first).
TitleOrder == <<"", "Algo", "Calc", "Course1", "Course2", "Course3", "Course4">>

CurrentYear == 2025   \* pd.Timestamp.now().year

DEFAULT_REQUIREMENTS ==
    ("CommonGE" :> 13) @@ ("CoreGE" :> 6) @@ ("MajorReq" :> 18) @@
    ("MajorElec" :> 24) @@ ("Advanced" :> 30) @@ ("GeneralElec" :> 39) @@
    ("Total" :> 130)

---------------------------------------------------------------------------
(* Sequence helpers. *)

Range(s) == {s[i] : i \in 1..Len(s)}

RECURSIVE SumSeq(_)
SumSeq(s) == IF s = <<>> THEN 0 ELSE Head(s) + SumSeq(Tail(s))

\* every sequence over S of length at most n
SeqsUpTo(S, n) == UNION {[1..k -> S] : k \in 0..n}

---------------------------------------------------------------------------
(* 2. The retake resolver (process_retake_courses_correct) and the GPA     *)
(* computed over its output.                                                *)

\* a grouping that yields one key per row instead of one per distinct title
GroupKeysPerRow(df) == [i \in 1..Len(df) |-> df[i].title]

\* df.groupby(title): the distinct titles in sorted order; each group keeps the
\* rows' order in df.
GroupKeys(df) ==
    SelectSeq(TitleOrder, LAMBDA t : \E i \in 1..Len(df) : df[i].title = t)

Group(df, title) == SelectSeq(df, LAMBDA r : r.title = title)

\* valid_grades: the rows whose grade is in the scale, with the grade_point
\* column added, and the rows without a grade point dropped (dropna).
ValidGrades(group) ==
    LET inScale == SelectSeq(group, LAMBDA r : r.grade \in DOMAIN GRADE_MAP_45)
        withPoint == [i \in 1..Len(inScale) |->
                        [title |-> inScale[i].title, credits |-> inScale[i].credits,
                         grade |-> inScale[i].grade, category |-> inScale[i].category,
                         year |-> inScale[i].year, term |-> inScale[i].term,
                         retake |-> inScale[i].retake,
                         grade_point |-> GRADE_MAP_45[inScale[i].grade]]]
    IN  SelectSeq(withPoint, LAMBDA r : r.grade_point # None)

\* sort_values([year, term], ascending=[False, False]).iloc[0]: the first row, in
\* table order, among those with the greatest (year, term label) pair; the term
\* labels compare as strings.
LatestFirst(rows) ==
    LET Later(a, b) ==
            \/ a.year > b.year
            \/ a.year = b.year /\ TermLabelRank(a.term) > TermLabelRank(b.term)
        i == CHOOSE k \in 1..Len(rows) :
                /\ \A j \in 1..Len(rows) : ~Later(rows[j], rows[k])
                /\ \A j \in 1..(k - 1) : Later(rows[k], rows[j])
    IN  rows[i]

\* a resolver that keeps the last record of a group without a graded record
BestCourseUngradedLast(group) ==
    IF Len(group) > 1
    THEN LET valid_grades == ValidGrades(group)
         IN  IF valid_grades # <<>>
             THEN LET max_grade_point ==
                          CHOOSE m \in {valid_grades[i].grade_point : i \in 1..Len(valid_grades)} :
                              \A i \in 1..Len(valid_grades) : valid_grades[i].grade_point <= m
                      best_courses ==
                          SelectSeq(valid_grades, LAMBDA r : r.grade_point = max_grade_point)
                  IN  IF Len(best_courses) > 1 THEN LatestFirst(best_courses)
                      ELSE best_courses[1]
             ELSE group[Len(group)]
    ELSE group[1]

\* a resolver that keeps the last attempt of a group, whatever its grade
BestCourseLastAttempt(group) == group[Len(group)]

\* the record kept for one title group
BestCourse(group) ==
    IF Len(group) > 1
    THEN LET valid_grades == ValidGrades(group)
         IN  IF valid_grades # <<>>
             THEN LET max_grade_point ==
                          CHOOSE m \in {valid_grades[i].grade_point : i \in 1..Len(valid_grades)} :
                              \A i \in 1..Len(valid_grades) : valid_grades[i].grade_point <= m
                      best_courses ==
                          SelectSeq(valid_grades, LAMBDA r : r.grade_point = max_grade_point)
                  IN  IF Len(best_courses) > 1 THEN LatestFirst(best_courses)
                      ELSE best_courses[1]
             ELSE group[1]
    ELSE group[1]

\* a warning for every repeated title, counting all its rows
DuplicateWarningGroupSize(title, group) ==
    IF Len(group) > 1 THEN <<[title |-> title, count |-> Len(group)]>> ELSE <<>>

\* the warning of one title group, or <<>>: (title, number of rows not marked retake)
DuplicateWarning(title, group) ==
    LET non_retake_courses == SelectSeq(group, LAMBDA r : r.retake = FALSE)
    IN  IF Len(group) > 1 /\ Len(non_retake_courses) > 1
        THEN <<[title |-> title, count |-> Len(non_retake_courses)]>>
        ELSE <<>>

RECURSIVE Flatten(_)
Flatten(ss) == IF ss = <<>> THEN <<>> ELSE Head(ss) \o Flatten(Tail(ss))

\* pd.DataFrame(list of rows): the columns are the union of the rows' columns, a
\* missing cell is NaN.
DataFrame(rows) ==
    IF \E i \in 1..Len(rows) : "grade_point" \in DOMAIN rows[i]
    THEN [i \in 1..Len(rows) |->
            IF "grade_point" \in DOMAIN rows[i] THEN rows[i]
            ELSE [title |-> rows[i].title, credits |-> rows[i].credits,
                  grade |-> rows[i].grade, category |-> rows[i].category,
                  year |-> rows[i].year, term |-> rows[i].term,
                  retake |-> rows[i].retake, grade_point |-> None]]
    ELSE rows

\* a resolver whose loop forgets the groups of a single record
process_retake_courses_repeated_only(courses_df) ==
    LET keys == SelectSeq(GroupKeys(courses_df),
                          LAMBDA t : Len(Group(courses_df, t)) > 1)
    IN  [processed |->
            DataFrame([k \in 1..Len(keys) |-> BestCourse(Group(courses_df, keys[k]))]),
         warnings |->
            Flatten([k \in 1..Len(keys) |->
                       DuplicateWarning(keys[k], Group(courses_df, keys[k]))])]

process_retake_courses_correct(courses_df) ==
    IF courses_df = <<>>
    THEN [processed |-> courses_df, warnings |-> <<>>]
    ELSE LET keys == GroupKeys(courses_df)
         IN  [processed |->
                 DataFrame([k \in 1..Len(keys) |-> BestCourse(Group(courses_df, keys[k]))]),
              warnings |->
                 Flatten([k \in 1..Len(keys) |->
                            DuplicateWarning(keys[k], Group(courses_df, keys[k]))])]

\* (current_gpa, total_credits, total_grade_points, warnings); current_gpa is the
\* quotient total_grade_points / total_credits, held as that pair.
calculate_gpa_with_correct_retake_handling(courses_df) ==
    IF courses_df = <<>>
    THEN [current_gpa |-> <<0, 1>>, total_credits |-> 0, total_grade_points |-> 0,
          warnings |-> <<>>]
    ELSE LET res == process_retake_courses_correct(courses_df)
             gpa_courses ==
                 SelectSeq(res.processed, LAMBDA r : GradePoint(r.grade) # None)
             total_credits ==
                 SumSeq([i \in 1..Len(gpa_courses) |-> gpa_courses[i].credits])
             total_grade_points ==
                 SumSeq([i \in 1..Len(gpa_courses) |->
                           GradePoint(gpa_courses[i].grade) * gpa_courses[i].credits])
         IN  IF gpa_courses = <<>>
             THEN [current_gpa |-> <<0, 1>>, total_credits |-> 0,
                   total_grade_points |-> 0, warnings |-> res.warnings]
             ELSE [current_gpa |-> IF total_credits > 0
                                   THEN <<total_grade_points, total_credits>>
                                   ELSE <<0, 1>>,
                   total_credits |-> total_credits,
                   total_grade_points |-> total_grade_points,
                   warnings |-> res.warnings]

---------------------------------------------------------------------------
(* 3. The requirement profile resolver. A profile (the dict                 *)
(* custom_requirements) is a function from category to required credits;    *)
(* the order of a dict's keys is not modelled.                               *)

get_categories_by_major_type(mt) ==
    IF mt = "Double" THEN BASE_CATEGORIES \o <<"DoubleReq", "DoubleElec">>
    ELSE IF mt = "Dual" THEN BASE_CATEGORIES \o <<"DualReq", "DualElec">>
    ELSE BASE_CATEGORIES

get_requirements_categories_by_major_type(mt) ==
    IF mt = "Advanced" THEN BASE_CATEGORIES \o <<"Advanced">>
    ELSE IF mt = "Double" THEN BASE_CATEGORIES \o <<"DoubleReq", "DoubleElec">>
    ELSE IF mt = "Dual" THEN BASE_CATEGORIES \o <<"DualReq", "DualElec">>
    ELSE BASE_CATEGORIES

\* d with key k removed (del d[k])
DictDel(d, k) == [c \in (DOMAIN d) \ {k} |-> d[c]]

\* d with d[k] = v (the key added when it is new)
DictSet(d, k, v) == [c \in (DOMAIN d) \cup {k} |-> IF c = k THEN v ELSE d[c]]

\* d.get(k, default)
DictGet(d, k, default) == IF k \in DOMAIN d THEN d[k] ELSE default

get_requirements_by_major_type(mt) ==
    IF mt = "Double"
    THEN DictDel(DictSet(DictSet(DEFAULT_REQUIREMENTS, "DoubleReq", 18),
                         "DoubleElec", 36), "Advanced")
    ELSE IF mt = "Dual"
    THEN DictDel(DictSet(DictSet(DEFAULT_REQUIREMENTS, "DualReq", 18),
                         "DualElec", 24), "Advanced")
    ELSE DEFAULT_REQUIREMENTS

RECURSIVE SumOver(_, _)
\* the sum of d[c] over the categories c of the finite set S
SumOver(d, S) ==
    IF S = {} THEN 0
    ELSE LET c == CHOOSE x \in S : TRUE IN d[c] + SumOver(d, S \ {c})

\* a total that counts the Total entry itself
auto_calculate_total_credits_all_keys(requirements) ==
    SumOver(requirements, DOMAIN requirements)

auto_calculate_total_credits(requirements) ==
    SumOver(requirements, (DOMAIN requirements) \ {"Total"})

\* the entry categories: the track's base categories, then the entries of
\* custom_categories that are not among them
get_current_categories(mt, cats) ==
    LET base_categories == get_categories_by_major_type(mt)
    IN  base_categories \o SelectSeq(cats, LAMBDA c : c \notin Range(base_categories))

---------------------------------------------------------------------------
(* 4. calculate_with_overflow. *)

\* df.sort_values(retake): the rows not marked retake, then the marked ones. The
\* sort is numpy's quicksort, which for a table of at most 16 rows is an
\* insertion sort and keeps the order of equal rows.
SortByRetake(df) ==
    SelectSeq(df, LAMBDA r : r.retake = FALSE) \o SelectSeq(df, LAMBDA r : r.retake = TRUE)

\* drop_duplicates(subset=[title], keep="last")
DropDuplicatesKeepLast(df) ==
    LET keep == {i \in 1..Len(df) : \A j \in (i + 1)..Len(df) : df[j].title # df[i].title}
        RECURSIVE Pick(_)
        Pick(i) == IF i > Len(df) THEN <<>>
                   ELSE (IF i \in keep THEN <<df[i]>> ELSE <<>>) \o Pick(i + 1)
    IN  Pick(1)

Deduped(df) == DropDuplicatesKeepLast(SortByRetake(df))

\* the credits of the rows of df, summed
CreditSum(df) == SumSeq([i \in 1..Len(df) |-> df[i].credits])

\* a sum of grade points that forgets the credits
PointSumUnweighted(df) == SumSeq([i \in 1..Len(df) |-> GradePoint(df[i].grade)])

\* the grade points (tenths) times credits of the rows of df, summed
PointSum(df) == SumSeq([i \in 1..Len(df) |-> df[i].credits * GradePoint(df[i].grade)])

\* a filter that lets the rows without a grade point through
GpaRowsAllRows(df) == df

GpaRows(df) == SelectSeq(df, LAMBDA r : GradePoint(r.grade) # None)

\* round(points / (10 * credits), 2) in hundredths. Python rounds the double
\* nearest to the quotient; a quotient on a tie (x.xx5) is, for fewer than 20
\* credits, a multiple of 1/8 and so exact, and rounds to the even hundredth.
Round2(points, credits) ==
    LET twice == 20 * points + credits
        h == twice \div (2 * credits)
    IN  IF twice % (2 * credits) = 0 /\ h % 2 = 1 THEN h - 1 ELSE h

\* the GPA of the rows of one category: a pair, or None for NaN
CategoryGpa(deduped, cat) ==
    LET rows == GpaRows(SelectSeq(deduped, LAMBDA r : r.category = cat))
    IN  IF rows # <<>> /\ CreditSum(rows) # 0
        THEN <<PointSum(rows), CreditSum(rows)>>
        ELSE None

\* an excess that does not wait for the requirements to be met
ExcessCreditsUnconditional(all_requirements_met, total_earned, total_required) ==
    IF total_earned > total_required THEN total_earned - total_required ELSE 0

\* step 5 of calculate_with_overflow: the credits beyond the grand total
ExcessCredits(all_requirements_met, total_earned, total_required) ==
    IF all_requirements_met /\ total_earned > total_required
    THEN total_earned - total_required ELSE 0

\* a step 3 in which only the first credit beyond a requirement overflows
CategoryOverflowOneCredit(earned, required) ==
    IF earned > required THEN 1 ELSE 0

\* step 3 of calculate_with_overflow: the credits of a category beyond its
\* requirement
CategoryOverflow(earned, required) ==
    IF earned > required THEN earned - required ELSE 0

\* a step 2 that fills the advanced-major bucket and leaves MajorElec uncapped
AdvancedMajorBucketUncapped(mt, raw1, major_selection_credits, major_selection_required) ==
    IF mt = "Advanced"
    THEN IF major_selection_credits > major_selection_required
         THEN DictSet(raw1, "Advanced", major_selection_credits - major_selection_required)
         ELSE DictSet(raw1, "Advanced", 0)
    ELSE raw1

\* step 2 of calculate_with_overflow: under the Advanced track the MajorElec
\* credits beyond the requirement go to the advanced-major bucket
AdvancedMajorBucket(mt, raw1, major_selection_credits, major_selection_required) ==
    IF mt = "Advanced"
    THEN IF major_selection_credits > major_selection_required
         THEN DictSet(DictSet(raw1, "MajorElec", major_selection_required),
                      "Advanced", major_selection_credits - major_selection_required)
         ELSE DictSet(raw1, "Advanced", 0)
    ELSE raw1

calculate_with_overflow(mt, cats, requirements, df_raw) ==
    LET deduped == Deduped(df_raw)
        gpa_rows == GpaRows(deduped)
        total_points == PointSum(gpa_rows)
        total_credits_gpa == CreditSum(gpa_rows)
        \* step 1: raw credits of every entry category
        all_categories == Range(get_current_categories(mt, cats))
        raw1 == [c \in all_categories |->
                    CreditSum(SelectSeq(deduped, LAMBDA r : r.category = c))]
        \* step 2: the advanced-major bucket
        major_selection_credits == DictGet(raw1, "MajorElec", 0)
        major_selection_required == DictGet(requirements, "MajorElec", 24)
        raw_summary == AdvancedMajorBucket(mt, raw1, major_selection_credits,
                                           major_selection_required)
        \* step 3: overflow into the catch-all category
        all_requirement_categories == (DOMAIN requirements) \ {"Total"}
        capped == all_requirement_categories \ {"GeneralElec"}
        Earned(c) == DictGet(raw_summary, c, 0)
        Required(c) == DictGet(requirements, c, 0)
        Overflow(c) == CategoryOverflow(Earned(c), Required(c))
        total_overflow == SumOver([c \in capped |-> Overflow(c)], capped)
        adjusted_summary ==
            [c \in capped \cup {"GeneralElec"} |->
                IF c = "GeneralElec"
                THEN DictGet(raw_summary, "GeneralElec", 0) + total_overflow
                ELSE IF Earned(c) > Required(c) THEN Required(c) ELSE Earned(c)]
        \* step 4: one summary row per requirement category
        summary_cats ==
            {c \in all_requirement_categories : ~(c = "Advanced" /\ mt # "Advanced")}
        summary_df ==
            [c \in summary_cats |->
                [earned |-> DictGet(adjusted_summary, c, 0),
                 gpa |-> IF c = "Advanced" /\ mt = "Advanced"
                         THEN CategoryGpa(deduped, "MajorElec")
                         ELSE CategoryGpa(deduped, c)]]
        \* step 5: requirements met and excess credits
        total_earned == SumOver(adjusted_summary, DOMAIN adjusted_summary)
        total_required == requirements["Total"]
        all_requirements_met ==
            \A c \in summary_cats : ~(DictGet(adjusted_summary, c, 0) < Required(c))
        excess_credits == ExcessCredits(all_requirements_met, total_earned, total_required)
    IN  [summary_df |-> summary_df,
         misc |-> [overall_gpa |-> IF total_credits_gpa # 0
                                   THEN Round2(total_points, total_credits_gpa) ELSE 0,
                   earned_credits |-> total_earned,
                   gpa_credits |-> total_credits_gpa,
                   excess_credits |-> excess_credits,
                   all_requirements_met |-> all_requirements_met],
         overflow_info |-> [total_overflow |-> total_overflow,
                            raw_summary |-> raw_summary,
                            adjusted_summary |-> adjusted_summary]]

---------------------------------------------------------------------------
(* 5. The session and the functions that change it. A session s is the     *)
(* record of the st.session_state entries the engine reads and writes.      *)

Session ==
    [major_type |-> major_type, custom_categories |-> custom_categories,
     custom_requirements |-> custom_requirements, courses |-> courses,
     major_type_changing |-> major_type_changing,
     skip_integrity_check |-> skip_integrity_check,
     csv_import_just_completed |-> csv_import_just_completed]

TrackCategories == {"DoubleReq", "DoubleElec", "DualReq", "DualElec"}

CategoriesUsed(df) == {df[i].category : i \in 1..Len(df)}

CountCategory(df, cat) == Len(SelectSeq(df, LAMBDA r : r.category = cat))

migrate_existing_data(s) ==
    IF s.courses # <<>> /\ "Foundations" \in CategoriesUsed(s.courses)
    THEN [s EXCEPT
            !.custom_categories =
                IF "Foundations" \notin Range(@) THEN Append(@, "Foundations") ELSE @,
            !.custom_requirements =
                IF "Foundations" \notin DOMAIN @ THEN DictSet(@, "Foundations", 12) ELSE @]
    ELSE s

\* DataIntegrityManagerFixed._validate_category_major_type_consistency_fixed
validate_category_major_type_consistency_fixed(s) ==
    IF s.courses = <<>> \/ s.csv_import_just_completed THEN s
    ELSE IF s.major_type = "Advanced"
    THEN [s EXCEPT !.courses =
            [i \in 1..Len(@) |->
                [@[i] EXCEPT !.category =
                    IF @ \in {"DualReq", "DoubleReq"} THEN "MajorReq"
                    ELSE IF @ \in {"DualElec", "DoubleElec"} THEN "MajorElec"
                    ELSE @]]]
    ELSE IF s.major_type \in {"Dual", "Double"} /\ "Advanced" \in DOMAIN s.custom_requirements
    THEN [s EXCEPT !.custom_requirements = DictDel(@, "Advanced")]
    ELSE s

\* DataIntegrityManagerFixed._validate_credit_logical_consistency_enhanced
validate_credit_logical_consistency_enhanced(s) ==
    [s EXCEPT !.courses =
        [i \in 1..Len(@) |->
            [@[i] EXCEPT !.credits = IF @ < 0 \/ @ > 10 THEN 3 ELSE @]]]

\* DataIntegrityManagerFixed._validate_retake_duplicates_enhanced: for every
\* title with two or more rows not marked retake, all of them but the latest
\* (ascending by year, then by term label; the last of equal rows) are marked.
validate_retake_duplicates_enhanced(s) ==
    LET df == s.courses
        NotLater(i, j) ==       \* row i sorts before row j
            \/ df[i].year < df[j].year
            \/ df[i].year = df[j].year /\ TermLabelRank(df[i].term) < TermLabelRank(df[j].term)
            \/ df[i].year = df[j].year /\ df[i].term = df[j].term /\ i < j
        Unflagged(t) == {i \in 1..Len(df) : df[i].title = t /\ df[i].retake = FALSE}
        Grouped(t) == {i \in 1..Len(df) : df[i].title = t}
        Marked(i) ==
            /\ df[i].title # ""
            /\ df[i].retake = FALSE
            /\ Cardinality(Grouped(df[i].title)) > 1
            /\ Cardinality(Unflagged(df[i].title)) > 1
            /\ \E j \in Unflagged(df[i].title) : NotLater(i, j)
    IN  [s EXCEPT !.courses =
            [i \in 1..Len(df) |-> IF Marked(i) THEN [df[i] EXCEPT !.retake = TRUE] ELSE df[i]]]

\* DataIntegrityManagerFixed._validate_graduation_requirements_consistency_fixed
validate_graduation_requirements_consistency_fixed(s) ==
    IF s.major_type_changing
    THEN [s EXCEPT !.major_type_changing = FALSE]
    ELSE LET requirements == s.custom_requirements
             auto_total == SumOver(requirements, (DOMAIN requirements) \ {"Total"})
             fixed_total ==
                 IF DictGet(requirements, "Total", 130) # auto_total
                 THEN [requirements EXCEPT !["Total"] = auto_total]
                 ELSE requirements
             non_negative == [c \in DOMAIN fixed_total |->
                                 IF fixed_total[c] < 0 THEN 0 ELSE fixed_total[c]]
             realistic == [c \in DOMAIN non_negative |->
                              IF c # "Total" /\ non_negative[c] > 100 THEN 30
                              ELSE non_negative[c]]
         IN  [s EXCEPT !.custom_requirements = realistic]

\* DataIntegrityManagerFixed.validate_and_fix_all (the data-type pass changes
\* nothing in a table whose cells have their types)
validate_and_fix_all(s) ==
    validate_graduation_requirements_consistency_fixed(
        validate_retake_duplicates_enhanced(
            validate_credit_logical_consistency_enhanced(
                validate_category_major_type_consistency_fixed(s))))

\* a compatibility check that knows the Dual categories only
check_major_type_compatibility_dual_only(df, new_major_type) ==
    LET invalid_cats ==
            IF new_major_type \in {"Advanced", "Double"}
            THEN <<"DualReq", "DualElec">> ELSE <<>>
        present == SelectSeq(invalid_cats,
                             LAMBDA c : \E i \in 1..Len(df) : df[i].category = c)
    IN  [k \in 1..Len(present) |->
            [category |-> present[k],
             count |-> Len(SelectSeq(df, LAMBDA r : r.category = present[k]))]]

\* the (category, count) conflicts of a switch to new_major_type, in the order
\* the function lists them
check_major_type_compatibility(df, new_major_type) ==
    LET invalid_cats ==
            IF new_major_type = "Advanced"
            THEN <<"DualReq", "DualElec", "DoubleReq", "DoubleElec">>
            ELSE IF new_major_type = "Dual" THEN <<"DoubleReq", "DoubleElec">>
            ELSE IF new_major_type = "Double" THEN <<"DualReq", "DualElec">>
            ELSE <<>>
        present == SelectSeq(invalid_cats, LAMBDA c : c \in CategoriesUsed(df))
    IN  IF df = <<>> THEN <<>>
        ELSE [k \in 1..Len(present) |->
                [category |-> present[k], count |-> CountCategory(df, present[k])]]

\* a switch that resets the profile to the target's defaults and keeps no
\* custom requirement
ApplyMajorTypeDefaultsOnly(s, new_major_type) ==
    LET custom_additions ==
            SelectSeq(s.custom_categories,
                      LAMBDA c : c \notin Range(BASE_CATEGORIES) /\ c \notin TrackCategories)
        defaults == get_requirements_by_major_type(new_major_type)
    IN  [s EXCEPT !.major_type = new_major_type,
                  !.custom_categories =
                      get_categories_by_major_type(new_major_type) \o custom_additions,
                  !.custom_requirements =
                      [defaults EXCEPT !["Total"] = auto_calculate_total_credits(defaults)]]

\* update_major_type_with_validation once the switch has passed validation
\* (lines 1747-1770)
ApplyMajorType(s, new_major_type) ==
    LET base_categories == get_categories_by_major_type(new_major_type)
        custom_additions ==
            SelectSeq(s.custom_categories,
                      LAMBDA c : c \notin Range(BASE_CATEGORIES) /\ c \notin TrackCategories)
        defaults == get_requirements_by_major_type(new_major_type)
        kept == {c \in DOMAIN s.custom_requirements :
                    c \notin DOMAIN defaults
                    /\ c \in Range(custom_additions) \cup {"Foundations"}}
        new_requirements ==
            [c \in (DOMAIN defaults) \cup kept |->
                IF c \in DOMAIN defaults THEN defaults[c] ELSE s.custom_requirements[c]]
    IN  [s EXCEPT !.major_type = new_major_type,
                  !.custom_categories = base_categories \o custom_additions,
                  !.custom_requirements =
                      [new_requirements EXCEPT
                          !["Total"] = auto_calculate_total_credits(new_requirements)]]

\* the callback of the track selectbox, with the selected track new_major_type
update_major_type_with_validation(s, new_major_type) ==
    IF new_major_type # s.major_type
    THEN IF check_major_type_compatibility(s.courses, new_major_type) # <<>>
         THEN [s EXCEPT !.major_type_changing = FALSE]
         ELSE ApplyMajorType([s EXCEPT !.major_type_changing = TRUE], new_major_type)
    ELSE ApplyMajorType(s, new_major_type)

\* validate_category_name: the names of the model are non-empty, at most 20
\* characters long and free of special characters, which leaves the two
\* duplicate checks
validate_category_name(s, name) ==
    /\ name \notin Range(get_current_categories(s.major_type, s.custom_categories))
    /\ name \notin Range(BASE_CATEGORIES) \cup {"Advanced"} \cup TrackCategories

add_custom_category(s, category_name) ==
    IF validate_category_name(s, category_name)
    THEN [s EXCEPT !.custom_categories = Append(@, category_name),
                   !.custom_requirements = DictSet(@, category_name, 0)]
    ELSE s

\* a removal that refuses the base categories only
RemoveRefusedBaseOnly(s, category_name) ==
    category_name \in Range(get_categories_by_major_type(s.major_type))

\* whether remove_custom_category refuses: a base category, or a category some
\* stored record uses
RemoveRefused(s, category_name) ==
    \/ category_name \in Range(get_categories_by_major_type(s.major_type))
    \/ s.courses # <<>> /\ CountCategory(s.courses, category_name) > 0

remove_custom_category(s, category_name) ==
    IF RemoveRefused(s, category_name) THEN s
    ELSE [s EXCEPT
            !.custom_categories = SelectSeq(@, LAMBDA c : c # category_name),
            !.custom_requirements =
                IF category_name \in DOMAIN @ THEN DictDel(@, category_name) ELSE @]

\* the default requirement of a quick-added category (line 2509)
QuickAddCredits(cat) ==
    CASE cat = "Foundations" -> 12
      [] cat = "Teaching" -> 22
      [] OTHER -> 6

quick_add(s, cat) ==
    [s EXCEPT !.custom_categories = Append(@, cat),
              !.custom_requirements = DictSet(@, cat, QuickAddCredits(cat))]

\* the callback update_requirement_with_auto_total(category) with the widget's
\* new value
update_requirement_with_auto_total(s, category, value) ==
    LET edited == [s.custom_requirements EXCEPT ![category] = value]
    IN  [s EXCEPT !.custom_requirements =
            [edited EXCEPT !["Total"] = auto_calculate_total_credits(edited)]]

\* validate_retake_status: a row without a title is never a retake
validate_retake_status(df) ==
    [i \in 1..Len(df) |-> IF df[i].title = "" THEN [df[i] EXCEPT !.retake = FALSE] ELSE df[i]]

---------------------------------------------------------------------------
(* 6. One run of the script. Streamlit runs the whole script on every      *)
(* interaction: a widget's callback first, then the script from the top;   *)
(* st.rerun() abandons the run and starts another.                          *)

\* lines 2080-2400: init_session (of which only migrate_existing_data acts on
\* an initialised session), the conditional integrity validation, and the
\* reset of two of the skip flags
ScriptTop(s) ==
    LET s1 == migrate_existing_data(s)
        should_skip_integrity ==
            s1.skip_integrity_check \/ s1.csv_import_just_completed \/ s1.major_type_changing
        s2 == IF s1.courses # <<>> /\ ~should_skip_integrity
              THEN validate_and_fix_all(s1) ELSE s1
    IN  [s2 EXCEPT !.skip_integrity_check = FALSE, !.csv_import_just_completed = FALSE]

\* lines 2562-2563: the sidebar sets the grand total on every run
SidebarTotal(s) ==
    LET auto_total == auto_calculate_total_credits(s.custom_requirements)
    IN  [s EXCEPT !.custom_requirements = [@ EXCEPT !["Total"] = auto_total]]

\* a run in which no button is pressed (the run st.rerun() starts, and the run
\* after a callback)
ScriptRun(s) == SidebarTotal(ScriptTop(s))

\* the session the interaction leaves is s
Commit(s) ==
    \E t \in {s} :
        /\ major_type' = t.major_type
        /\ custom_categories' = t.custom_categories
        /\ custom_requirements' = t.custom_requirements
        /\ courses' = t.courses
        /\ major_type_changing' = t.major_type_changing
        /\ skip_integrity_check' = t.skip_integrity_check
        /\ csv_import_just_completed' = t.csv_import_just_completed

---------------------------------------------------------------------------
(* The session as init_session leaves it on the first script run. *)

DefaultRow(category, year) ==
    [title |-> "", credits |-> 3, grade |-> "A0", category |-> category,
     year |-> year, term |-> TERM_OPTIONS[1], retake |-> FALSE]

InitSession ==
    /\ custom_requirements = DEFAULT_REQUIREMENTS
    /\ major_type = "Advanced"
    /\ custom_categories = BASE_CATEGORIES
    /\ courses = <<DefaultRow(BASE_CATEGORIES[1], CurrentYear)>>
    /\ major_type_changing = FALSE
    /\ skip_integrity_check = FALSE
    /\ csv_import_just_completed = FALSE
    /\ report = [kind |-> "init"]

---------------------------------------------------------------------------
(* The retake resolver and the two GPA computations applied on their own   *)
(* to every raw table over RetakeRows, in the session init_session leaves.   *)

RetakeRows ==
    [title : {"Algo", "Calc"}, credits : {3}, grade : {"A+", "B0", "P"},
     category : {"MajorElec"}, year : {2024},
     term : {"Summer", "Winter"}, retake : BOOLEAN]

InitRetake ==
    /\ InitSession
    /\ fn_input \in SeqsUpTo(RetakeRows, MaxLen)
    /\ fn_result = [op |-> "none"]

\* resolved = process_retake_courses_correct(raw)
ResolveRetakes ==
    /\ fn_result.op = "none"
    /\ fn_result' = [op |-> "resolved",
                     resolved |-> process_retake_courses_correct(fn_input)]
    /\ UNCHANGED <<fn_input, session_vars>>

\* again = process_retake_courses_correct(resolved)
ResolveAgain ==
    /\ fn_result.op = "resolved"
    /\ fn_result' = [op |-> "resolved_twice",
                     resolved |-> fn_result.resolved,
                     again |-> process_retake_courses_correct(fn_result.resolved.processed)]
    /\ UNCHANGED <<fn_input, session_vars>>

\* the two computations of the page over the same raw table: the Calculate
\* handler's (over the raw table, and over the resolver's output) and the
\* dashboard's
Reconcile ==
    /\ fn_result.op = "none"
    /\ fn_result' =
           [op |-> "reconciled",
            overflow |-> calculate_with_overflow(major_type, custom_categories,
                                                 custom_requirements, fn_input),
            overflow_of_resolved |->
                calculate_with_overflow(major_type, custom_categories, custom_requirements,
                                        process_retake_courses_correct(fn_input).processed),
            gpa |-> calculate_gpa_with_correct_retake_handling(fn_input)]
    /\ UNCHANGED <<fn_input, session_vars>>

NextRetake == ResolveRetakes \/ ResolveAgain \/ Reconcile

SpecRetake == InitRetake /\ [][NextRetake]_vars

Titles(df) == {df[i].title : i \in 1..Len(df)}

\* C3: the resolver's output has exactly one record per distinct title of its
\* input, and no two output records share a title.
TitleUniqueness ==
    fn_result.op = "resolved" =>
        LET out == fn_result.resolved.processed
        IN  /\ Titles(out) = Titles(fn_input)
            /\ Len(out) = Cardinality(Titles(fn_input))
            /\ \A i, j \in 1..Len(out) : out[i].title = out[j].title => i = j

\* a raw table with a repeated title has been resolved
TitleUniquenessWitness ==
    /\ fn_result.op = "resolved"
    /\ Len(fn_input) = 3
    /\ Cardinality(Titles(fn_input)) = 2
    /\ Len(fn_result.resolved.processed) = 2

\* C4: for every title with two or more records of which at least one is graded,
\* the kept record has the greatest grade point among the title's graded records
\* (so a P/NP record is never kept in place of a graded one).
HighestGradeKept ==
    fn_result.op = "resolved" =>
        \A t \in Titles(fn_input) :
            LET group == Group(fn_input, t)
                graded == {i \in 1..Len(group) : GradePoint(group[i].grade) # None}
                out == fn_result.resolved.processed
            IN  (Len(group) >= 2 /\ graded # {}) =>
                    \A k \in 1..Len(out) :
                        out[k].title = t =>
                            /\ GradePoint(out[k].grade) # None
                            /\ \A i \in graded :
                                   GradePoint(group[i].grade) <= GradePoint(out[k].grade)
                            /\ \E i \in graded :
                                   /\ group[i].grade = out[k].grade
                                   /\ group[i].credits = out[k].credits
                                   /\ group[i].year = out[k].year
                                   /\ group[i].term = out[k].term
                                   /\ group[i].retake = out[k].retake

\* a group whose first record is P and whose later records are graded B0 and A+
HighestGradeKeptWitness ==
    /\ fn_result.op = "resolved"
    /\ Len(fn_input) = 3
    /\ \A i \in 1..3 : fn_input[i].title = "Calc"
    /\ fn_input[1].grade = "P" /\ fn_input[2].grade = "B0" /\ fn_input[3].grade = "A+"
    /\ fn_result.resolved.processed[1].grade = "A+"

\* C6: resolving the resolver's output returns that output again.
ResolveIdempotent ==
    fn_result.op = "resolved_twice" =>
        fn_result.again.processed = fn_result.resolved.processed

\* the second application ran on an output the first one had shrunk
ResolveIdempotentWitness ==
    /\ fn_result.op = "resolved_twice"
    /\ Len(fn_input) = 3
    /\ Len(fn_result.resolved.processed) = 1
    /\ Len(fn_result.again.processed) = 1

---------------------------------------------------------------------------
(* 7. The handlers of the main script.                                      *)

\* the title validate_course_data gives the row of index i - 1 that has none
AutoTitle(i) == "Course" \o ToString(i)

\* a validation that repairs the credits and nothing else
validate_course_data_credits_only(s, df) ==
    [i \in 1..Len(df) |->
        [title |-> df[i].title,
         credits |-> IF df[i].credits \in Range(CREDIT_OPTIONS) THEN df[i].credits ELSE 3,
         grade |-> df[i].grade, category |-> df[i].category, year |-> df[i].year,
         term |-> df[i].term,
         retake |-> IF "retake" \in DOMAIN df[i] THEN df[i].retake ELSE TRUE]]

\* validate_course_data, on the copy of the table the Calculate handler makes.
\* A cell that is not a number (NaN after to_numeric) is None; a row without a
\* retake cell (NaN) has no retake field.
validate_course_data(s, df) ==
    LET valid_categories == get_current_categories(s.major_type, s.custom_categories)
    IN  [i \in 1..Len(df) |->
            [title |-> IF df[i].title = "" THEN AutoTitle(i) ELSE df[i].title,
             credits |-> IF df[i].credits \in Range(CREDIT_OPTIONS) THEN df[i].credits
                         ELSE 3,
             grade |-> IF df[i].grade \in GRADE_OPTIONS THEN df[i].grade ELSE "A0",
             year |-> IF df[i].year < 2000 \/ df[i].year > CurrentYear + 5
                      THEN CurrentYear ELSE df[i].year,
             category |-> IF df[i].category \in Range(valid_categories)
                          THEN df[i].category ELSE valid_categories[1],
             term |-> IF df[i].term \in Range(TERM_OPTIONS) THEN df[i].term
                      ELSE TERM_OPTIONS[1],
             retake |-> IF "retake" \in DOMAIN df[i] THEN df[i].retake ELSE FALSE]]

get_valid_courses(s, df) ==
    SelectSeq(df, LAMBDA r :
        /\ r.title # ""
        /\ r.credits > 0
        /\ r.grade \in GRADE_OPTIONS
        /\ r.category \in Range(get_current_categories(s.major_type, s.custom_categories)))

\* the table the Calculate handler hands to calculate_cached (lines 2916-2940)
valid_courses(s) == get_valid_courses(s, validate_course_data(s, s.courses))

\* calculate_cached(df_hash, valid_courses, req_hash): the tuple the handler
\* stores in calculation_results, computed afresh
calculate_cached(s) ==
    calculate_with_overflow(s.major_type, s.custom_categories, s.custom_requirements,
                            valid_courses(s))

RECURSIVE Unique(_)
\* Series.unique(): the distinct values in order of first appearance
Unique(seq) ==
    IF seq = <<>> THEN <<>>
    ELSE LET rest == Unique(SubSeq(seq, 1, Len(seq) - 1))
             last == seq[Len(seq)]
         IN  IF last \in Range(rest) THEN rest ELSE Append(rest, last)

\* import_from_csv_with_metadata up to its st.rerun(). A file is its parsed
\* metadata line (<<>> when it has none, else <<metadata>>) and its rows.
import_from_csv_with_metadata(s, file) ==
    LET df == file.rows
        original_major_type == s.major_type
        imported_categories == Unique([i \in 1..Len(df) |-> df[i].category])
        Skipping(t) == [t EXCEPT !.skip_integrity_check = TRUE,
                                 !.csv_import_just_completed = TRUE]
    IN  IF file.metadata # <<>>
        THEN LET metadata == file.metadata[1]
                 restored_major_type == metadata.major_type
                 defaults == get_requirements_by_major_type(restored_major_type)
                 base_categories == get_categories_by_major_type(restored_major_type)
             IN  IF restored_major_type # original_major_type
                 THEN Skipping(
                        [s EXCEPT
                           !.major_type = restored_major_type,
                           !.custom_requirements =
                               [c \in (DOMAIN defaults) \cup DOMAIN metadata.custom_requirements |->
                                   IF c \in DOMAIN metadata.custom_requirements
                                   THEN metadata.custom_requirements[c] ELSE defaults[c]],
                           !.custom_categories =
                               IF metadata.custom_categories # <<>>
                               THEN metadata.custom_categories
                               ELSE base_categories \o
                                    SelectSeq(imported_categories,
                                              LAMBDA c : c \notin Range(base_categories) /\ c # ""),
                           !.courses = df])
                 ELSE [s EXCEPT !.custom_categories = metadata.custom_categories,
                                !.custom_requirements = metadata.custom_requirements,
                                !.courses = df]
        ELSE LET current_categories ==
                     get_current_categories(s.major_type, s.custom_categories)
                 new_categories ==
                     SelectSeq(imported_categories,
                               LAMBDA c : c \notin Range(current_categories) /\ c # "")
                 detected_major_type ==
                     IF Range(imported_categories) \cap {"DualReq", "DualElec"} # {}
                     THEN <<"Dual">>
                     ELSE IF Range(imported_categories) \cap {"DoubleReq", "DoubleElec"} # {}
                     THEN <<"Double">>
                     ELSE <<>>
             IN  IF detected_major_type # <<>> /\ detected_major_type[1] # original_major_type
                 THEN LET defaults == get_requirements_by_major_type(detected_major_type[1])
                      IN  Skipping(
                            [s EXCEPT
                               !.major_type = detected_major_type[1],
                               !.custom_requirements =
                                   [c \in (DOMAIN defaults) \cup Range(new_categories) |->
                                       IF c \in DOMAIN defaults THEN defaults[c] ELSE 0],
                               !.custom_categories =
                                   get_categories_by_major_type(detected_major_type[1])
                                       \o new_categories,
                               !.courses = df])
                 ELSE [s EXCEPT
                         !.custom_categories = @ \o new_categories,
                         !.custom_requirements =
                             [c \in (DOMAIN @) \cup Range(new_categories) |->
                                 IF c \in Range(new_categories) THEN 0 ELSE @[c]],
                         !.courses = df]

---------------------------------------------------------------------------
(* 8. The application: one action per interaction of the user with the     *)
(* page. An action is the whole interaction: the widget's callback or the   *)
(* button's handler, the script run around it, and the run st.rerun()        *)
(* starts.                                                                   *)

\* what the user types and picks
CategoryInputs == {"CommonGE", "Teaching", "DoubleReq"}   \* of a course
QuickAddInputs == {"Teaching"}
DirectAddInputs == {"Teaching"}
RequirementCategories == {"CommonGE", "Teaching"}          \* inputs edited
RequirementInputs == {2}
DeleteInputs == {"Teaching", "Advanced", "Foundations"}

ImportedRow(category) ==
    [title |-> "Calc", credits |-> 3, grade |-> "A0", category |-> category,
     year |-> CurrentYear, term |-> "T1", retake |-> FALSE]

\* the files the user uploads: one written by hand (no metadata line) and one
\* exported by a release whose base categories had Foundations among them
CsvFiles ==
    { [metadata |-> <<>>, rows |-> <<ImportedRow("Advanced")>>],
      [metadata |-> <<[major_type |-> "Advanced",
                       custom_categories |-> BASE_CATEGORIES,
                       custom_requirements |-> DEFAULT_REQUIREMENTS]>>,
       rows |-> <<ImportedRow("Foundations")>>] }

Init ==
    /\ InitSession
    /\ fn_input = <<>>
    /\ fn_result = [op |-> "none"]

\* the track selectbox changes to new_major_type
SelectMajorType(new_major_type) ==
    /\ new_major_type # major_type
    /\ LET conflicts == check_major_type_compatibility(courses, new_major_type)
       IN  /\ Commit(ScriptRun(update_major_type_with_validation(Session, new_major_type)))
           /\ report' = IF conflicts # <<>>
                        THEN [kind |-> "switch_rejected", target |-> new_major_type,
                              conflicts |-> conflicts]
                        ELSE [kind |-> "switched"]
    /\ UNCHANGED fn_vars

\* the categories the sidebar shows a requirement input for
RequirementWidgets(s) ==
    LET requirements_categories == get_requirements_categories_by_major_type(s.major_type)
    IN  Range(requirements_categories)
        \cup Range(get_current_categories(s.major_type, s.custom_categories))

\* a requirement input changes to value. (For a category without an entry in
\* the profile the callback raises KeyError before it writes anything.)
EditRequirement(category, value) ==
    /\ category \in RequirementWidgets(Session)
    /\ category \in DOMAIN custom_requirements
    /\ value # custom_requirements[category]
    /\ Commit(ScriptRun(update_requirement_with_auto_total(Session, category, value)))
    /\ report' = [kind |-> "requirement_edited"]
    /\ UNCHANGED fn_vars

\* the quick-add button with cat picked
QuickAdd(cat) ==
    LET s == ScriptTop(Session)
    IN  /\ cat \notin Range(get_current_categories(s.major_type, s.custom_categories))
        /\ Commit(ScriptRun(quick_add(s, cat)))
        /\ report' = [kind |-> "category_added"]
        /\ UNCHANGED fn_vars

\* the direct-add button with category_name typed
DirectAdd(category_name) ==
    LET s == ScriptTop(Session)
    IN  /\ IF validate_category_name(s, category_name)
           THEN /\ Commit(ScriptRun(add_custom_category(s, category_name)))
                /\ report' = [kind |-> "category_added"]
           ELSE /\ Commit(SidebarTotal(s))
                /\ report' = [kind |-> "category_add_refused"]
        /\ UNCHANGED fn_vars

\* the delete button with delete_cat picked among the deletable categories
RemoveCategory(delete_cat) ==
    LET s == ScriptTop(Session)
    IN  /\ delete_cat \in Range(get_current_categories(s.major_type, s.custom_categories))
        /\ delete_cat \notin Range(get_categories_by_major_type(s.major_type))
        /\ IF RemoveRefused(s, delete_cat)
           THEN /\ Commit(SidebarTotal(s))
                /\ report' = [kind |-> "category_remove_refused"]
           ELSE /\ Commit(ScriptRun(remove_custom_category(s, delete_cat)))
                /\ report' = [kind |-> "category_removed"]
        /\ UNCHANGED fn_vars

\* the reset-to-defaults button
ResetRequirements ==
    LET s == SidebarTotal(ScriptTop(Session))
    IN  /\ Commit(ScriptRun([s EXCEPT !.custom_requirements =
                                 get_requirements_by_major_type(s.major_type)]))
        /\ report' = [kind |-> "requirements_reset"]
        /\ UNCHANGED fn_vars

\* the add-row button (_add_row)
AddRow ==
    LET s == SidebarTotal(ScriptTop(Session))
        base_year == IF s.courses = <<>> THEN CurrentYear
                     ELSE s.courses[Len(s.courses)].year
        categories == get_current_categories(s.major_type, s.custom_categories)
    IN  /\ Len(s.courses) < MaxCourses
        /\ Commit([s EXCEPT !.courses =
                      validate_retake_status(Append(@, DefaultRow(categories[1], base_year)))])
        /\ report' = [kind |-> "courses_edited"]
        /\ UNCHANGED fn_vars

\* the delete-last-row button (_del_row)
DelRow ==
    LET s == SidebarTotal(ScriptTop(Session))
    IN  /\ s.courses # <<>>
        /\ Commit([s EXCEPT !.courses = SubSeq(@, 1, Len(@) - 1)])
        /\ report' = [kind |-> "courses_edited"]
        /\ UNCHANGED fn_vars

\* the category cell of row i of the data editor changes (the callback
\* update_courses)
EditCell(i, value) ==
    /\ i \in 1..Len(courses)
    /\ value # courses[i].category
    /\ value \in Range(get_current_categories(major_type, custom_categories))
    /\ Commit(ScriptRun([Session EXCEPT !.courses =
                            validate_retake_status([@ EXCEPT ![i].category = value])]))
    /\ report' = [kind |-> "courses_edited"]
    /\ UNCHANGED fn_vars

\* the Calculate button: the integrity validation, then the calculation over
\* the validated copy of the table
Calculate ==
    LET s == validate_and_fix_all(SidebarTotal(ScriptTop(Session)))
    IN  /\ Commit(s)
        /\ report' = IF s.courses = <<>> \/ valid_courses(s) = <<>>
                     THEN [kind |-> "nothing_to_calculate"]
                     ELSE [kind |-> "calculated"]
        /\ UNCHANGED fn_vars

\* the import button with file uploaded
ImportCsv(file) ==
    LET s == SidebarTotal(ScriptTop(Session))
    IN  /\ Len(file.rows) <= MaxCourses
        /\ Commit(ScriptRun(import_from_csv_with_metadata(s, file)))
        /\ report' = [kind |-> "imported"]
        /\ UNCHANGED fn_vars

\* any other interaction: a script run that presses nothing
Rerun ==
    /\ Commit(ScriptRun(Session))
    /\ report' = [kind |-> "rerun"]
    /\ UNCHANGED fn_vars

Next ==
    \/ \E new_major_type \in Range(MAJOR_TYPE_OPTIONS) : SelectMajorType(new_major_type)
    \/ \E category \in RequirementCategories, value \in RequirementInputs :
           EditRequirement(category, value)
    \/ \E cat \in QuickAddInputs : QuickAdd(cat)
    \/ \E category_name \in DirectAddInputs : DirectAdd(category_name)
    \/ \E delete_cat \in DeleteInputs :
           RemoveCategory(delete_cat)
    \/ ResetRequirements
    \/ AddRow
    \/ DelRow
    \/ \E i \in 1..MaxCourses, value \in CategoryInputs : EditCell(i, value)
    \/ Calculate
    \/ \E file \in CsvFiles : ImportCsv(file)
    \/ Rerun

Spec == Init /\ [][Next]_vars

---------------------------------------------------------------------------
(* Properties of the reconciliation (calculate_with_overflow).              *)

\* C5: the overall GPA, the GPA-bearing credits and the per-category credits
\* of calculate_with_overflow over a raw table are those it computes over the
\* resolver's output, and agree with calculate_gpa_with_correct_retake_handling
\* (whose quotient is compared after the rounding to two decimals the misc
\* value carries).
OnlyHighestAttemptCounts ==
    fn_result.op = "reconciled" =>
        /\ fn_result.overflow.misc = fn_result.overflow_of_resolved.misc
        /\ fn_result.overflow.overflow_info = fn_result.overflow_of_resolved.overflow_info
        /\ fn_result.overflow.misc.gpa_credits = fn_result.gpa.total_credits
        /\ fn_result.overflow.misc.overall_gpa =
               Round2(fn_result.gpa.current_gpa[1], fn_result.gpa.current_gpa[2])

\* C1: after a calculation, the adjusted per-category credits sum to the raw
\* per-category credits of the deduplicated course set.
OverflowConservation ==
    report.kind = "calculated" =>
        LET overflow_info == calculate_cached(Session).overflow_info
            adjusted_summary == overflow_info.adjusted_summary
            raw_summary == overflow_info.raw_summary
        IN  SumOver(adjusted_summary, DOMAIN adjusted_summary)
                = SumOver(raw_summary, DOMAIN raw_summary)

\* C10: after a calculation, a category that course records use and the profile
\* has no entry for counts as required 0: its credits are part of total_overflow
\* and of the final total of GeneralElec.
MissingCategoryOverflows ==
    report.kind = "calculated" =>
        LET result == calculate_cached(Session)
            raw_summary == result.overflow_info.raw_summary
            missing == {c \in DOMAIN raw_summary :
                           /\ raw_summary[c] > 0
                           /\ c \notin DOMAIN custom_requirements
                           /\ c # "GeneralElec"}
            Surplus(c) == IF raw_summary[c] > DictGet(custom_requirements, c, 0)
                          THEN raw_summary[c] - DictGet(custom_requirements, c, 0) ELSE 0
            capped == (DOMAIN raw_summary) \ {"GeneralElec"}
            expected == SumOver([c \in capped |-> Surplus(c)], capped)
        IN  missing # {} =>
                /\ result.overflow_info.total_overflow = expected
                /\ result.overflow_info.adjusted_summary["GeneralElec"]
                       = DictGet(raw_summary, "GeneralElec", 0) + expected

\* C9: after a calculation under the Double or Dual track no MajorElec credit
\* has moved into an Advanced bucket and the summary has no Advanced row; under
\* the Advanced track the summary has the Advanced row.
AdvancedOnlyUnderItsTrack ==
    report.kind = "calculated" =>
        LET result == calculate_cached(Session)
            deduped == Deduped(valid_courses(Session))
        IN  /\ major_type \in {"Double", "Dual"} =>
                /\ "Advanced" \notin DOMAIN result.summary_df
                /\ result.overflow_info.raw_summary["MajorElec"]
                       = CreditSum(SelectSeq(deduped, LAMBDA r : r.category = "MajorElec"))
            /\ major_type = "Advanced" => "Advanced" \in DOMAIN result.summary_df

---------------------------------------------------------------------------
(* Properties of the requirement profile and of the track switch.           *)

\* the interactions that change the requirement profile
ProfileMutations ==
    {"requirement_edited", "category_added", "category_removed", "switched",
     "requirements_reset", "imported"}

\* C2: after every interaction that changes the requirement profile, the Total
\* entry is the sum of the required credits of all other categories.
GrandTotalInvariant ==
    report.kind \in ProfileMutations =>
        custom_requirements["Total"]
            = SumOver(custom_requirements, (DOMAIN custom_requirements) \ {"Total"})

\* an import whose rows made migrate_existing_data add the Foundations entry
GrandTotalWitness ==
    /\ report.kind = "imported"
    /\ "Foundations" \in DOMAIN custom_requirements
    /\ custom_requirements["Foundations"] = 12
    /\ custom_requirements["Total"] = 142

\* the categories a track does not allow course records to use: the track
\* categories that are not among its entry categories
IllegalUnder(track) == TrackCategories \ Range(get_categories_by_major_type(track))

\* C7: in every reachable session, for every other track that some stored record
\* has an illegal category for, the callback leaves track, categories, profile
\* and course table as they are, and the conflicts it reports are the illegal
\* categories in use, each with the number of its records.
RejectedSwitchPreservesState ==
    \A target \in Range(MAJOR_TYPE_OPTIONS) :
        (target # major_type /\ CategoriesUsed(courses) \cap IllegalUnder(target) # {}) =>
            LET after == update_major_type_with_validation(Session, target)
                conflicts == check_major_type_compatibility(courses, target)
            IN  /\ after.major_type = major_type
                /\ after.custom_categories = custom_categories
                /\ after.custom_requirements = custom_requirements
                /\ after.courses = courses
                /\ {conflicts[k].category : k \in 1..Len(conflicts)}
                       = CategoriesUsed(courses) \cap IllegalUnder(target)
                /\ \A k \in 1..Len(conflicts) :
                       conflicts[k].count
                           = Cardinality({i \in 1..Len(courses) :
                                             courses[i].category = conflicts[k].category})
                /\ \A k, l \in 1..Len(conflicts) :
                       conflicts[k].category = conflicts[l].category => k = l

\* a switch away from the Double track was rejected for two DoubleReq records
RejectedSwitchWitness ==
    /\ report.kind = "switch_rejected"
    /\ major_type = "Double"
    /\ report.conflicts = <<[category |-> "DoubleReq", count |-> 2]>>
    /\ Len(courses) = 2

\* C8: in every reachable session, for every other track the stored records are
\* legal under, the callback leaves the target's base categories followed by
\* the custom categories, the target's defaults plus the custom categories'
\* requirements, and a Total that is the sum of the other requirements.
AcceptedSwitchResult ==
    \A target \in Range(MAJOR_TYPE_OPTIONS) :
        (target # major_type /\ CategoriesUsed(courses) \cap IllegalUnder(target) = {}) =>
            LET after == update_major_type_with_validation(Session, target)
                custom == SelectSeq(custom_categories,
                              LAMBDA c : c \notin Range(BASE_CATEGORIES)
                                         /\ c \notin IllegalUnder("Advanced"))
                defaults == get_requirements_by_major_type(target)
                retained == {c \in Range(custom) :
                                c \in DOMAIN custom_requirements /\ c \notin DOMAIN defaults}
                required == after.custom_requirements
            IN  /\ after.major_type = target
                /\ after.custom_categories = get_categories_by_major_type(target) \o custom
                /\ (DOMAIN defaults) \cup retained \subseteq DOMAIN required
                /\ DOMAIN required \subseteq (DOMAIN defaults) \cup retained
                /\ \A c \in (DOMAIN defaults) \ {"Total"} : required[c] = defaults[c]
                /\ \A c \in retained : required[c] = custom_requirements[c]
                /\ required["Total"] = SumOver(required, (DOMAIN required) \ {"Total"})

\* a switch to the Double track kept the Teaching category and its requirement
AcceptedSwitchWitness ==
    /\ report.kind = "switched"
    /\ major_type = "Double"
    /\ "Teaching" \in Range(custom_categories)
    /\ "Teaching" \in DOMAIN custom_requirements
    /\ custom_requirements["Teaching"] = 22
    /\ custom_requirements["Total"] = 176

---------------------------------------------------------------------------
(* The aggregation applied on its own: calculate_with_overflow and          *)
(* calculate_gpa_with_correct_retake_handling over every table of           *)
(* EngineRows, under a track's default profile and under a profile whose    *)
(* requirement inputs were set low enough for two rows to meet them.        *)

EngineRows ==
    [title : {"Algo", "Calc"}, credits : {1, 2}, grade : {"A+", "A0"},
     category : {"MajorElec", "GeneralElec"}, year : {2024},
     term : {"T1"}, retake : BOOLEAN]

EngineTracks == {"Advanced", "Double"}

\* the profile after the requirement inputs of the track were set to 2 for
\* MajorElec, 1 for GeneralElec and 0 for every other category
LowProfile(mt) ==
    LET defaults == get_requirements_by_major_type(mt)
        entered == [c \in DOMAIN defaults |->
                       IF c = "MajorElec" THEN 2 ELSE IF c = "GeneralElec" THEN 1 ELSE 0]
    IN  [entered EXCEPT !["Total"] = auto_calculate_total_credits(entered)]

InitEngine ==
    /\ major_type \in EngineTracks
    /\ custom_categories = get_categories_by_major_type(major_type)
    /\ custom_requirements \in {get_requirements_by_major_type(major_type),
                                LowProfile(major_type)}
    /\ courses = <<DefaultRow(BASE_CATEGORIES[1], CurrentYear)>>
    /\ major_type_changing = FALSE
    /\ skip_integrity_check = FALSE
    /\ csv_import_just_completed = FALSE
    /\ report = [kind |-> "init"]
    /\ fn_input \in SeqsUpTo(EngineRows, MaxCourses)
    /\ fn_result = [op |-> "none"]

\* summary_df, misc, overflow_info = calculate_with_overflow(table), and the
\* aggregator's tuple over the same table
Aggregate ==
    /\ fn_result.op = "none"
    /\ fn_result' =
           [op |-> "aggregated",
            overflow |-> calculate_with_overflow(major_type, custom_categories,
                                                 custom_requirements, fn_input),
            gpa |-> calculate_gpa_with_correct_retake_handling(fn_input)]
    /\ UNCHANGED <<fn_input, session_vars>>

\* the table with its rows in the order p
Permuted(df, p) == [i \in 1..Len(df) |-> df[p[i]]]

Orders(n) == {p \in [1..n -> 1..n] : \A i, j \in 1..n : p[i] = p[j] => i = j}

\* the aggregator over the table and over the same rows in another order
AggregateReordered ==
    /\ fn_result.op = "none"
    /\ \E p \in Orders(Len(fn_input)) :
           fn_result' =
               [op |-> "reordered",
                order |-> p,
                gpa |-> calculate_gpa_with_correct_retake_handling(fn_input),
                gpa_reordered |->
                    calculate_gpa_with_correct_retake_handling(Permuted(fn_input, p))]
    /\ UNCHANGED <<fn_input, session_vars>>

NextEngine == Aggregate \/ AggregateReordered

SpecEngine == InitEngine /\ [][NextEngine]_vars

\* C11: all_requirements_met is true exactly when every category of the profile
\* has a final credit total of at least its requirement, and excess_credits is
\* the total of the final credits minus the Total requirement when the flag is
\* true and the difference positive, and 0 otherwise.
RequirementsMetAndExcess ==
    fn_result.op = "aggregated" =>
        LET misc == fn_result.overflow.misc
            final == fn_result.overflow.overflow_info.adjusted_summary
            categories == (DOMAIN custom_requirements) \ {"Total"}
            met == \A c \in categories :
                       (IF c \in DOMAIN final THEN final[c] ELSE 0) >= custom_requirements[c]
            total_final == SumOver(final, DOMAIN final)
        IN  /\ misc.all_requirements_met = met
            /\ misc.earned_credits = total_final
            /\ misc.excess_credits =
                   IF met /\ total_final - custom_requirements["Total"] > 0
                   THEN total_final - custom_requirements["Total"] ELSE 0

\* under the low profile two rows met every requirement with one credit to spare
RequirementsMetWitness ==
    /\ fn_result.op = "aggregated"
    /\ custom_requirements["Total"] = 3
    /\ Len(fn_input) = 2
    /\ fn_result.overflow.misc.all_requirements_met
    /\ fn_result.overflow.misc.earned_credits = 4
    /\ fn_result.overflow.misc.excess_credits = 1

---------------------------------------------------------------------------
(* Properties of the GPA over a resolved record set (a table in which no    *)
(* two rows share a title).                                                  *)

Resolved(df) == \A i, j \in 1..Len(df) : df[i].title = df[j].title => i = j

\* the rows of df that bear a grade point
Graded(df) == {i \in 1..Len(df) : GRADE_MAP_45[df[i].grade] # None}

---------------------------------------------------------------------------
(* The target GPA simulation of the result display. The target is held in   *)
(* tenths, a GPA in hundredths, credits as integers; a quotient is held as  *)
(* the pair <<numerator, denominator>> in hundredths, so that comparisons    *)
(* are exact where the code compares doubles.                                *)

\* a guard that lets remain = 0 through to the projection
NoRemainingCreditsStrict(remain) == remain < 0

\* if remain <= 0
NoRemainingCredits(remain) == remain <= 0

\* needed points that forget the points already earned
NeededPointsFromScratch(target, overall_gpa, gpa_credits, remain) ==
    10 * target * (gpa_credits + remain)

\* needed_points = target_total_points - current_total_points, in hundredths
NeededPoints(target, overall_gpa, gpa_credits, remain) ==
    LET current_total_points == overall_gpa * gpa_credits
        future_total_credits == gpa_credits + remain
        target_total_points == 10 * target * future_total_credits
    IN  target_total_points - current_total_points

\* the grade range shown with a needed average (thresholds 4.25, 3.75, 3.25, 2.75)
GradeGuide(needed_points, remain) ==
    IF needed_points >= 425 * remain THEN "A+"
    ELSE IF needed_points >= 375 * remain THEN "A+ ~ A0"
    ELSE IF needed_points >= 325 * remain THEN "A0 ~ B+"
    ELSE IF needed_points >= 275 * remain THEN "B+ ~ B0"
    ELSE "B0 or below"

\* the message of the simulation for the stored misc, the profile's Total and
\* the target
target_gpa_simulation(target, misc, total_required) ==
    LET remain == total_required - misc.earned_credits
    IN  IF NoRemainingCredits(remain)
        THEN IF misc.excess_credits > 0
             THEN [kind |-> "credits_exceeded", excess |-> misc.excess_credits]
             ELSE [kind |-> "credits_met"]
        ELSE LET current_total_points == misc.overall_gpa * misc.gpa_credits
                 future_total_credits == misc.gpa_credits + remain
                 needed_points ==
                     NeededPoints(target, misc.overall_gpa, misc.gpa_credits, remain)
                 need_avg == IF remain > 0 THEN <<needed_points, 100 * remain>>
                             ELSE <<0, 1>>
             IN  IF need_avg[1] < 0
                 THEN [kind |-> "already_achieved", need_avg |-> need_avg]
                 ELSE IF need_avg[1] * 10 > 45 * need_avg[2]
                 THEN [kind |-> "infeasible", need_avg |-> need_avg,
                       max_possible_gpa |->
                           <<current_total_points + remain * 450,
                             100 * future_total_credits>>]
                 ELSE [kind |-> "needed", need_avg |-> need_avg,
                       grade_guide |-> GradeGuide(need_avg[1] * 100, need_avg[2])]

TargetInputs == 0..45

\* the (overall_gpa, gpa_credits, earned_credits) of a stored result, and the
\* Total of the profile when the result is displayed
ProjectionInputs ==
    {in \in [target : TargetInputs, overall_gpa : {0, 300, 350, 400, 450},
             gpa_credits : {0, 3, 60}, earned_credits : {0, 60, 80, 140},
             excess_credits : {0, 10}, total_required : {80, 130}] :
        /\ in.gpa_credits = 0 => in.overall_gpa = 0
        /\ in.excess_credits > 0 => in.earned_credits = 140}

InitProjection ==
    /\ InitSession
    /\ fn_input \in ProjectionInputs
    /\ fn_result = [op |-> "none"]

Project ==
    /\ fn_result.op = "none"
    /\ fn_result' =
           [op |-> "projected",
            outcome |-> target_gpa_simulation(
                            fn_input.target,
                            [overall_gpa |-> fn_input.overall_gpa,
                             gpa_credits |-> fn_input.gpa_credits,
                             earned_credits |-> fn_input.earned_credits,
                             excess_credits |-> fn_input.excess_credits],
                            fn_input.total_required)]
    /\ UNCHANGED <<fn_input, session_vars>>

SpecProjection == InitProjection /\ [][Project]_vars

\* C14: with remaining credits > 0 the needed average is
\* (target x (gpa credits + remaining) - GPA x gpa credits) / remaining; the
\* outcome is 'already achieved' iff it is negative, 'infeasible' iff it is
\* above 4.5, with the best achievable GPA
\* (GPA x gpa credits + remaining x 4.5) / (gpa credits + remaining), and the
\* needed average itself otherwise. (Both sides in hundredths, cross-multiplied.)
TargetProjection ==
    fn_result.op = "projected" =>
        LET in == fn_input
            out == fn_result.outcome
            remaining == in.total_required - in.earned_credits
            numerator == 10 * in.target * (in.gpa_credits + remaining)
                             - in.overall_gpa * in.gpa_credits
        IN  remaining > 0 =>
                /\ out.need_avg[1] * 100 * remaining = numerator * out.need_avg[2]
                /\ out.need_avg[2] > 0
                /\ (out.kind = "already_achieved") <=> (numerator < 0)
                /\ (out.kind = "infeasible") <=> (numerator > 450 * remaining)
                /\ (out.kind = "needed") <=> (numerator >= 0 /\ numerator <= 450 * remaining)
                /\ out.kind = "infeasible" =>
                       /\ out.max_possible_gpa[2] > 0
                       /\ out.max_possible_gpa[1] * 100 * (in.gpa_credits + remaining)
                              = (in.overall_gpa * in.gpa_credits + remaining * 450)
                                    * out.max_possible_gpa[2]

\* target 4.0, GPA 3.5 over 60 credits, 20 remaining: needed 5.5, infeasible,
\* best achievable 3.75
TargetProjectionWitness ==
    /\ fn_result.op = "projected"
    /\ fn_input.target = 40 /\ fn_input.overall_gpa = 350 /\ fn_input.gpa_credits = 60
    /\ fn_input.total_required - fn_input.earned_credits = 20
    /\ fn_result.outcome.kind = "infeasible"
    /\ fn_result.outcome.need_avg[1] * 10 = 55 * fn_result.outcome.need_avg[2]
    /\ fn_result.outcome.max_possible_gpa[1] * 100 = 375 * fn_result.outcome.max_possible_gpa[2]

\* C15: when the remaining credits (Total requirement minus earned credits) are
\* 0 or less, the outcome is the credits-met message whatever the target, no
\* needed average is computed and no quotient has a zero divisor.
NoRemainingCreditsResolved ==
    fn_result.op = "projected" =>
        LET out == fn_result.outcome
        IN  /\ fn_input.total_required - fn_input.earned_credits <= 0 =>
                /\ out.kind \in {"credits_exceeded", "credits_met"}
                /\ "need_avg" \notin DOMAIN out
                /\ "max_possible_gpa" \notin DOMAIN out
            /\ "need_avg" \in DOMAIN out => out.need_avg[2] # 0
            /\ "max_possible_gpa" \in DOMAIN out => out.max_possible_gpa[2] # 0

\* earned credits equal to the Total requirement, with the highest target
NoRemainingCreditsWitness ==
    /\ fn_result.op = "projected"
    /\ fn_input.total_required = 80 /\ fn_input.earned_credits = 80
    /\ fn_input.target = 45
    /\ fn_result.outcome = [kind |-> "credits_met"]

---------------------------------------------------------------------------
(* validate_course_data applied on its own to tables whose cells may be      *)
(* invalid, in the session init_session leaves.                              *)

\* rows as a table can hold them before validation: credits outside the
\* options or not a number, a grade outside the scale, an unknown category, a
\* year outside the window or not a number, an unknown term
UncheckedCells ==
    [title : {"", "Algo"}, credits : {3, 7, None}, grade : {"A+", "Z"},
     category : {"MajorElec", "Unknown"}, year : {2024, 1990, 2040, None},
     term : {"T1"}]

\* the same rows with a retake cell, and without one
UncheckedRows ==
    {[title |-> c.title, credits |-> c.credits, grade |-> c.grade,
      category |-> c.category, year |-> c.year, term |-> c.term, retake |-> TRUE] :
        c \in UncheckedCells}
    \cup UncheckedCells

InitValidate ==
    /\ InitSession
    /\ fn_input \in SeqsUpTo(UncheckedRows, MaxCourses)
    /\ fn_result = [op |-> "none"]

\* issues, fixes = validate_course_data(df): df is repaired in place
Validate ==
    /\ fn_result.op = "none"
    /\ fn_result' = [op |-> "validated", df |-> validate_course_data(Session, fn_input)]
    /\ UNCHANGED <<fn_input, session_vars>>

SpecValidate == InitValidate /\ [][Validate]_vars

---------------------------------------------------------------------------
(* The application with transcripts imported from hand-written files: the   *)
(* import, the Calculate button and plain script runs.                      *)

TranscriptRows ==
    [title : {"Algo"}, credits : {3}, grade : {"A+", "B0"},
     category : {"MajorElec", "DoubleReq"}, year : {2024},
     term : {"T1", "T2"}, retake : BOOLEAN]

\* files without a metadata line
TranscriptFiles ==
    {[metadata |-> <<>>, rows |-> rows] :
        rows \in SeqsUpTo(TranscriptRows, MaxCourses) \ {<<>>}}

NextCalculate ==
    \/ \E file \in TranscriptFiles : ImportCsv(file)
    \/ Calculate
    \/ Rerun

SpecCalculate == Init /\ [][NextCalculate]_vars

\* C17: the Calculate interaction leaves the stored course table as it was:
\* every stored record has the same fields before and after the computation.
CalculateLeavesCoursesUnchanged == [][Calculate => courses' = courses]_vars

---------------------------------------------------------------------------
(* The grade scale. *)

\* C18: the grade lookup maps A+, A0, B+, B0, C+, C0, D+, D0 to 4.5, 4.0, 3.5,
\* 3.0, 2.5, 2.0, 1.5, 1.0, F to 0.0 and both P and NP to no grade point, and
\* holds no other symbol; the GPA computation over a table without repeated
\* titles counts each record with exactly these points (in tenths) and leaves
\* the records without a grade point out of the GPA-bearing credits.
GradeScale ==
    LET letters == {"A+", "A0", "B+", "B0", "C+", "C0", "D+", "D0", "F"}
        markers == {"P", "NP"}
        Tenths(g) == CASE g = "A+" -> 45 [] g = "A0" -> 40 [] g = "B+" -> 35
                       [] g = "B0" -> 30 [] g = "C+" -> 25 [] g = "C0" -> 20
                       [] g = "D+" -> 15 [] g = "D0" -> 10 [] g = "F" -> 0
    IN  /\ DOMAIN GRADE_MAP_45 = letters \cup markers
        /\ \A g \in letters : GradePoint(g) = Tenths(g)
        /\ \A g \in markers : GradePoint(g) = None
        /\ GradePoint("A-") = None
        /\ (fn_result.op = "reconciled" /\ Resolved(fn_input)) =>
               LET bearing == SelectSeq(fn_input, LAMBDA r : r.grade \in letters)
               IN  /\ fn_result.gpa.total_credits =
                          SumSeq([i \in 1..Len(bearing) |-> bearing[i].credits])
                   /\ fn_result.gpa.total_grade_points =
                          SumSeq([i \in 1..Len(bearing) |->
                                    Tenths(bearing[i].grade) * bearing[i].credits])

\* a B0 record and a P record were looked up: 3.0 x 3 grade points over 3
\* GPA-bearing credits
GradeScaleWitness ==
    /\ fn_result.op = "reconciled"
    /\ Len(fn_input) = 2
    /\ fn_input[1].title # fn_input[2].title
    /\ fn_input[1].grade = "B0"
    /\ fn_input[2].grade = "P"
    /\ fn_result.gpa.total_grade_points = 90
    /\ fn_result.gpa.total_credits = 3

---------------------------------------------------------------------------
(* The GPA over a table and over its permutations. *)

\* C19: for every table and every permutation of its rows, the weighted GPA
\* and the GPA-bearing credit total the aggregator returns are the same.
GpaOrderInvariant ==
    fn_result.op = "reordered" =>
        /\ fn_result.gpa_reordered.total_credits = fn_result.gpa.total_credits
        /\ fn_result.gpa_reordered.current_gpa[1] * fn_result.gpa.current_gpa[2]
               = fn_result.gpa.current_gpa[1] * fn_result.gpa_reordered.current_gpa[2]

---------------------------------------------------------------------------
(* The precision of the overall GPA calculate_with_overflow returns. *)

\* C20: misc["overall_gpa"] is the exact quotient of the total grade points by
\* the GPA-bearing credits, not that quotient rounded to two decimals.
\* (overall_gpa is held in hundredths and the grade points in tenths.)
OverallGpaFullPrecision ==
    (fn_result.op = "aggregated" /\ fn_result.overflow.misc.gpa_credits > 0) =>
        LET misc == fn_result.overflow.misc
            total_points == PointSum(GpaRows(Deduped(fn_input)))
        IN  misc.overall_gpa * misc.gpa_credits = 10 * total_points

---------------------------------------------------------------------------
(* The resolver's choice among the records that share the highest grade.   *)

\* the position of a term in the fixed term sequence TERM_OPTIONS
TermSequenceIndex(term) == CHOOSE k \in 1..Len(TERM_OPTIONS) : TERM_OPTIONS[k] = term

\* C21: when several records of one title share the highest grade point, the
\* resolver keeps one with the latest (year, term), the terms of a year ordered
\* by the fixed sequence (1st term, 2nd term, summer, winter) and not by the
\* alphabetical order of their labels.
TieBreakByRecency ==
    fn_result.op = "resolved" =>
        \A t \in Titles(fn_input) :
            LET best == ValidGrades(Group(fn_input, t))
                top == {i \in 1..Len(best) :
                           \A j \in 1..Len(best) : best[j].grade_point <= best[i].grade_point}
                out == fn_result.resolved.processed
            IN  Cardinality(top) >= 2 =>
                    \A k \in 1..Len(out) :
                        out[k].title = t =>
                            \A i \in top :
                                \/ best[i].year < out[k].year
                                \/ /\ best[i].year = out[k].year
                                   /\ TermSequenceIndex(best[i].term)
                                          <= TermSequenceIndex(out[k].term)

---------------------------------------------------------------------------
(* The advanced-major bucket and the overflow pass of the aggregation. *)

\* C22: under the Advanced track, with E the raw earned credits of MajorElec
\* and R its requirement, if E > R the advanced-major bucket receives E - R and
\* the counted MajorElec credits are R; otherwise the bucket is 0 and the
\* counted MajorElec credits stay E.
AdvancedMajorDerivation ==
    (fn_result.op = "aggregated" /\ major_type = "Advanced") =>
        LET electives == SelectSeq(Deduped(fn_input), LAMBDA r : r.category = "MajorElec")
            E == SumSeq([i \in 1..Len(electives) |-> electives[i].credits])
            R == custom_requirements["MajorElec"]
            raw == fn_result.overflow.overflow_info.raw_summary
            final == fn_result.overflow.overflow_info.adjusted_summary
        IN  IF E > R
            THEN raw["Advanced"] = E - R /\ raw["MajorElec"] = R /\ final["MajorElec"] = R
            ELSE raw["Advanced"] = 0 /\ raw["MajorElec"] = E /\ final["MajorElec"] = E

\* two MajorElec courses of 2 credits against a requirement of 2: the bucket
\* received 2 and MajorElec counts 2
AdvancedMajorDerivationWitness ==
    /\ fn_result.op = "aggregated"
    /\ major_type = "Advanced"
    /\ custom_requirements["MajorElec"] = 2
    /\ Len(fn_input) = 2
    /\ \A i \in 1..2 : fn_input[i].category = "MajorElec" /\ fn_input[i].credits = 2
    /\ fn_result.overflow.overflow_info.raw_summary["Advanced"] = 2
    /\ fn_result.overflow.overflow_info.raw_summary["MajorElec"] = 2

\* C23: for every category of the requirement profile other than GeneralElec
\* and Total, the final credit total is min(counted, required); total_overflow
\* is the sum over those categories of max(0, counted - required); and the
\* final total of GeneralElec is its own raw credits plus total_overflow,
\* whatever its requirement.
GeneralOverflowPass ==
    fn_result.op = "aggregated" =>
        LET raw == fn_result.overflow.overflow_info.raw_summary
            final == fn_result.overflow.overflow_info.adjusted_summary
            capped == (DOMAIN custom_requirements) \ {"GeneralElec", "Total"}
            Counted(c) == IF c \in DOMAIN raw THEN raw[c] ELSE 0
            Beyond(c) == IF Counted(c) > custom_requirements[c]
                         THEN Counted(c) - custom_requirements[c] ELSE 0
        IN  /\ \A c \in capped :
                   /\ final[c] = IF Counted(c) < custom_requirements[c]
                                 THEN Counted(c) ELSE custom_requirements[c]
                   /\ final[c] <= custom_requirements[c]
            /\ fn_result.overflow.overflow_info.total_overflow =
                   SumOver([c \in capped |-> Beyond(c)], capped)
            /\ final["GeneralElec"] =
                   Counted("GeneralElec") + fn_result.overflow.overflow_info.total_overflow

\* two 2-credit MajorElec courses against a requirement of 2, under the Double
\* track: 2 credits overflowed and the catch-all total of 2 exceeds its
\* requirement of 1
GeneralOverflowPassWitness ==
    /\ fn_result.op = "aggregated"
    /\ major_type = "Double"
    /\ custom_requirements["MajorElec"] = 2
    /\ custom_requirements["GeneralElec"] = 1
    /\ Len(fn_input) = 2
    /\ fn_input[1].title # fn_input[2].title
    /\ \A i \in 1..2 : fn_input[i].category = "MajorElec" /\ fn_input[i].credits = 2
    /\ fn_result.overflow.overflow_info.total_overflow = 2
    /\ fn_result.overflow.overflow_info.adjusted_summary["MajorElec"] = 2
    /\ fn_result.overflow.overflow_info.adjusted_summary["GeneralElec"] = 2

---------------------------------------------------------------------------
(* The resolver's warnings and its fallbacks. *)

\* C24: the resolver emits exactly one warning for each title with two or more
\* records not marked retake, naming the title and the number of such records,
\* and no warning for any other title.
UnflaggedDuplicateWarning ==
    fn_result.op = "resolved" =>
        LET warnings == fn_result.resolved.warnings
            Unflagged(t) == {i \in 1..Len(fn_input) :
                                fn_input[i].title = t /\ fn_input[i].retake = FALSE}
        IN  /\ \A t \in Titles(fn_input) :
                   Cardinality({k \in 1..Len(warnings) : warnings[k].title = t})
                       = IF Cardinality(Unflagged(t)) >= 2 THEN 1 ELSE 0
            /\ \A k \in 1..Len(warnings) :
                   /\ warnings[k].title \in Titles(fn_input)
                   /\ warnings[k].count = Cardinality(Unflagged(warnings[k].title))

\* two unflagged records of one title graded B0 and A+: the A+ record is kept
\* and one warning cites the title with count 2
UnflaggedDuplicateWarningWitness ==
    /\ fn_result.op = "resolved"
    /\ Len(fn_input) = 2
    /\ fn_input[1].title = "Calc" /\ fn_input[2].title = "Calc"
    /\ fn_input[1].grade = "B0" /\ fn_input[2].grade = "A+"
    /\ ~fn_input[1].retake /\ ~fn_input[2].retake
    /\ Len(fn_result.resolved.processed) = 1
    /\ fn_result.resolved.processed[1].grade = "A+"
    /\ fn_result.resolved.warnings = <<[title |-> "Calc", count |-> 2]>>

\* C25: when no record of a title with several records has a grade point (all
\* are P or NP), the resolver keeps the first record of the title in input
\* order; and of an empty table it returns an empty table and no warning.
UngradedGroupFallback ==
    fn_result.op = "resolved" =>
        LET out == fn_result.resolved.processed
        IN  /\ fn_input = <<>> => (out = <<>> /\ fn_result.resolved.warnings = <<>>)
            /\ \A t \in Titles(fn_input) :
                   LET group == Group(fn_input, t)
                   IN  (Len(group) >= 2
                        /\ \A i \in 1..Len(group) : group[i].grade \in {"P", "NP"}) =>
                           /\ Cardinality({k \in 1..Len(out) : out[k].title = t}) = 1
                           /\ \A k \in 1..Len(out) :
                                  out[k].title = t =>
                                      /\ out[k].grade = group[1].grade
                                      /\ out[k].credits = group[1].credits
                                      /\ out[k].category = group[1].category
                                      /\ out[k].year = group[1].year
                                      /\ out[k].term = group[1].term
                                      /\ out[k].retake = group[1].retake

\* two P records of one title, the first of the winter and flagged, the second
\* of the summer: the first was kept
UngradedGroupFallbackWitness ==
    /\ fn_result.op = "resolved"
    /\ Len(fn_input) = 2
    /\ fn_input[1].title = "Algo" /\ fn_input[2].title = "Algo"
    /\ fn_input[1].grade = "P" /\ fn_input[2].grade = "P"
    /\ fn_input[1].term = "Winter" /\ fn_input[2].term = "Summer"
    /\ fn_input[1].retake /\ ~fn_input[2].retake
    /\ Len(fn_result.resolved.processed) = 1
    /\ fn_result.resolved.processed[1].term = "Winter"
    /\ fn_result.resolved.processed[1].retake

---------------------------------------------------------------------------
(* The flags that make the script skip its integrity validation. *)

\* C26: each flag that suppresses the integrity validation at the top of the
\* script suppresses it for at most one run: a run in which nothing is pressed
\* leaves none of skip_integrity_check, csv_import_just_completed and
\* major_type_changing set, so the validation runs on the next rerun at the
\* latest.
SkipFlagsOneShot ==
    [][Rerun => /\ ~skip_integrity_check'
                /\ ~csv_import_just_completed'
                /\ ~major_type_changing']_vars

---------------------------------------------------------------------------
(* The application restricted to the operations on the category list and   *)
(* the track: additions (typed or quick-add), removals, track switches and  *)
(* resets of the requirements.                                               *)

QuickCategories == {"Teaching", "Foundations"}
TypedCategories == {"Ethics", "Teaching", "MajorReq"}

NextCategories ==
    \/ \E new_major_type \in Range(MAJOR_TYPE_OPTIONS) : SelectMajorType(new_major_type)
    \/ \E cat \in QuickCategories : QuickAdd(cat)
    \/ \E category_name \in TypedCategories : DirectAdd(category_name)
    \/ \E delete_cat \in QuickCategories \cup TypedCategories : RemoveCategory(delete_cat)
    \/ ResetRequirements

SpecCategories == Init /\ [][NextCategories]_vars

\* C27: after any sequence of custom-category additions, removals, accepted
\* track switches and resets of the requirements, every category of the entry
\* set has an entry in the requirement profile.
EveryCategoryHasRequirement ==
    Range(get_current_categories(major_type, custom_categories))
        \subseteq DOMAIN custom_requirements

---------------------------------------------------------------------------
(* The categories of the stored course records. *)

\* the application restricted to the track switch, the additions and removals
\* of custom categories, and the edits of the course table that give the
\* stored records their categories
StoredCategoryInputs == {"CommonGE", "Teaching", "DoubleReq", "DualReq"}

NextStored ==
    \/ \E new_major_type \in Range(MAJOR_TYPE_OPTIONS) : SelectMajorType(new_major_type)
    \/ \E cat \in QuickCategories : QuickAdd(cat)
    \/ \E category_name \in TypedCategories : DirectAdd(category_name)
    \/ \E delete_cat \in QuickCategories \cup TypedCategories : RemoveCategory(delete_cat)
    \/ AddRow
    \/ \E i \in 1..MaxCourses, value \in StoredCategoryInputs : EditCell(i, value)

SpecStored == Init /\ [][NextStored]_vars

\* every stored record's category is in the current entry category set
StoredCategoriesLegal ==
    \A i \in 1..Len(courses) :
        courses[i].category \in Range(get_current_categories(major_type, custom_categories))

\* C28: from a session in which every stored record's category is in the entry
\* category set, a track switch (accepted or rejected), a custom-category
\* addition and a custom-category removal lead to a session in which that is
\* still so; and remove_custom_category changes nothing when asked to remove a
\* base category of the track or a category some stored record uses.
StoredCategoriesStayLegal ==
    /\ [][(/\ StoredCategoriesLegal
           /\ report'.kind \in {"switched", "switch_rejected", "category_added",
                                "category_add_refused", "category_removed",
                                "category_remove_refused"})
          => StoredCategoriesLegal']_vars
    /\ [](\A c \in Range(get_current_categories(major_type, custom_categories)) :
              (\/ c \in Range(get_categories_by_major_type(major_type))
               \/ \E i \in 1..Len(courses) : courses[i].category = c)
                  => remove_custom_category(Session, c) = Session)

\* the removal of a custom category that a stored record uses was refused
StoredCategoriesStayLegalWitness ==
    /\ report.kind = "category_remove_refused"
    /\ \E i \in 1..Len(courses) :
           /\ courses[i].category \notin Range(get_categories_by_major_type(major_type))
           /\ courses[i].category \in Range(custom_categories)
    /\ StoredCategoriesLegal

---------------------------------------------------------------------------
(* Backup and restore. st.session_state keeps the objects it is given, so   *)
(* two keys can hold one object. fn_result holds the backup_* keys:          *)
(*   - backup_custom_requirements is a shallow copy of the profile: its      *)
(*     entries (the inner {"required": n} dicts) of the keys in `shared`     *)
(*     are the very entries of the live profile;                             *)
(*   - after a restore the live table, profile and category list are the    *)
(*     backup's own objects (same_table, same_profile, same_list).           *)
(* at_backup records the values at backup time for the round trip to be     *)
(* stated against.                                                           *)

\* the backup_* keys after an interaction that wrote the live objects in place
\* and left the session s
AliasedBackup(b, s) ==
    [b EXCEPT
        !.custom_requirements =
            IF b.same_profile THEN s.custom_requirements
            ELSE [k \in DOMAIN @ |->
                     IF k \in b.shared /\ k \in DOMAIN s.custom_requirements
                     THEN s.custom_requirements[k] ELSE @[k]],
        !.courses = IF b.same_table THEN s.courses ELSE @,
        !.custom_categories = IF b.same_list THEN s.custom_categories ELSE @]

\* what an interaction that writes in place leaves in fn_result
BackupAfter(s) ==
    IF fn_result.op = "backup" THEN AliasedBackup(fn_result, s) ELSE fn_result

\* the backup button: backup_data_enhanced, in the run that pressed it
BackupData ==
    LET s == SidebarTotal(ScriptTop(Session))
    IN  /\ Commit(s)
        /\ report' = [kind |-> "backed_up"]
        /\ fn_result' =
               [op |-> "backup",
                courses |-> s.courses,                          \* DataFrame.copy()
                custom_requirements |-> s.custom_requirements,  \* dict.copy()
                custom_categories |-> s.custom_categories,      \* list.copy()
                major_type |-> s.major_type,
                shared |-> DOMAIN s.custom_requirements,
                same_profile |-> FALSE, same_table |-> FALSE, same_list |-> FALSE,
                at_backup |-> [courses |-> s.courses,
                               custom_requirements |-> s.custom_requirements,
                               custom_categories |-> s.custom_categories,
                               major_type |-> s.major_type]]
        /\ UNCHANGED fn_input

\* the restore button: restore_data_enhanced and the run its st.rerun() starts
RestoreData ==
    /\ fn_result.op = "backup"
    /\ LET top == SidebarTotal(ScriptTop(Session))
           b == AliasedBackup(fn_result, top)
           restored == [top EXCEPT !.courses = b.courses,
                                   !.custom_requirements = b.custom_requirements,
                                   !.custom_categories = b.custom_categories,
                                   !.major_type = b.major_type]
           s == ScriptRun(restored)
       IN  /\ Commit(s)
           /\ report' = [kind |-> "restored"]
           /\ fn_result' = AliasedBackup([b EXCEPT !.same_profile = TRUE,
                                                   !.same_table = TRUE,
                                                   !.same_list = TRUE], s)
    /\ UNCHANGED fn_input

\* a requirement input changes: the callback writes the entry of the category
\* and the entry of the grand total in place
EditRequirementInPlace(category, value) ==
    /\ category \in RequirementWidgets(Session)
    /\ category \in DOMAIN custom_requirements
    /\ value # custom_requirements[category]
    /\ LET s == ScriptRun(update_requirement_with_auto_total(Session, category, value))
       IN  /\ Commit(s)
           /\ fn_result' = BackupAfter(s)
    /\ report' = [kind |-> "requirement_edited"]
    /\ UNCHANGED fn_input

\* the quick-add button: the list is appended to and the profile gets a new key
QuickAddInPlace(cat) ==
    LET top == ScriptTop(Session)
        s == ScriptRun(quick_add(top, cat))
    IN  /\ cat \notin Range(get_current_categories(top.major_type, top.custom_categories))
        /\ Commit(s)
        /\ fn_result' = BackupAfter(s)
        /\ report' = [kind |-> "category_added"]
        /\ UNCHANGED fn_input

\* a cell of the data editor changes: update_courses writes the stored table
\* with .loc
EditCellInPlace(i, value) ==
    /\ i \in 1..Len(courses)
    /\ value # courses[i].category
    /\ value \in Range(get_current_categories(major_type, custom_categories))
    /\ LET s == ScriptRun([Session EXCEPT !.courses =
                              validate_retake_status([@ EXCEPT ![i].category = value])])
       IN  /\ Commit(s)
           /\ fn_result' = BackupAfter(s)
    /\ report' = [kind |-> "courses_edited"]
    /\ UNCHANGED fn_input

TunedRequirementInputs == {2, 5}
BackupCategoryInputs == {"CoreGE", "Teaching"}

NextBackup ==
    \/ BackupData
    \/ RestoreData
    \/ \E category \in RequirementCategories, value \in TunedRequirementInputs :
           EditRequirementInPlace(category, value)
    \/ \E cat \in QuickAddInputs : QuickAddInPlace(cat)
    \/ \E i \in 1..MaxCourses, value \in BackupCategoryInputs : EditCellInPlace(i, value)

SpecBackup == Init /\ [][NextBackup]_vars

\* C29: after a backup, whatever requirement edits, category changes and
\* course edits follow, a restore returns the course table, the requirement
\* profile, the category list and the track to their values at backup time,
\* the second restore after further edits included.
BackupRestoreRoundTrip ==
    report.kind = "restored" =>
        /\ courses = fn_result.at_backup.courses
        /\ custom_requirements = fn_result.at_backup.custom_requirements
        /\ custom_categories = fn_result.at_backup.custom_categories
        /\ major_type = fn_result.at_backup.major_type

---------------------------------------------------------------------------
(* The track selectbox after an import that changed the track. The import   *)
(* sets force_widget_recreation; the run its st.rerun() starts draws the     *)
(* selectbox under a fresh key and stores the imported track under           *)
(* major_type_widget (lines 2414-2439). The callback of that selectbox reads *)
(* major_type_widget, so when the user picks another track in it the         *)
(* callback runs with the selected track equal to the current track.         *)

\* the defaults of a track with the CommonGE requirement tuned to 10
TunedProfile(mt) ==
    LET tuned == [get_requirements_by_major_type(mt) EXCEPT !["CommonGE"] = 10]
    IN  [tuned EXCEPT !["Total"] = auto_calculate_total_credits(tuned)]

\* exported files: a track, its categories and a profile, default or tuned
ExportedFiles ==
    {[metadata |-> <<[major_type |-> mt,
                      custom_categories |-> get_categories_by_major_type(mt),
                      custom_requirements |->
                          IF tuned THEN TunedProfile(mt)
                          ELSE get_requirements_by_major_type(mt)]>>,
      rows |-> <<ImportedRow(c)>>] :
        mt \in Range(MAJOR_TYPE_OPTIONS), tuned \in BOOLEAN,
        c \in {"CommonGE", "MajorElec"}}

\* the import button with an exported file; widget_recreated tells whether the
\* run after the import drew the selectbox under a fresh key
ImportExported(file) ==
    LET s == SidebarTotal(ScriptTop(Session))
        imported == import_from_csv_with_metadata(s, file)
    IN  /\ Commit(ScriptRun(imported))
        /\ report' = [kind |-> "imported",
                      widget_recreated |-> imported.major_type # s.major_type]
        /\ UNCHANGED fn_vars

\* the user picks selected in the recreated selectbox: the callback
\* update_major_type_with_validation runs with major_type_widget, the current
\* track
ChangeRecreatedWidget(selected) ==
    /\ report.kind = "imported"
    /\ report.widget_recreated
    /\ selected # major_type
    /\ LET after == update_major_type_with_validation(Session, major_type)
       IN  /\ Commit(ScriptRun(after))
           /\ report' = [kind |-> "switch_same_track",
                         before |-> [major_type |-> major_type,
                                     custom_categories |-> custom_categories,
                                     custom_requirements |-> custom_requirements],
                         after |-> [major_type |-> after.major_type,
                                    custom_categories |-> after.custom_categories,
                                    custom_requirements |-> after.custom_requirements]]
    /\ UNCHANGED fn_vars

NextRecreated ==
    \/ \E file \in ExportedFiles : ImportExported(file)
    \/ \E selected \in Range(MAJOR_TYPE_OPTIONS) : ChangeRecreatedWidget(selected)
    \/ \E category \in {"CommonGE", "CoreGE"}, value \in TunedRequirementInputs :
           EditRequirement(category, value)
    \/ Rerun

SpecRecreated == Init /\ [][NextRecreated]_vars

\* C30: when update_major_type_with_validation runs with the selected track
\* equal to the current track, the track, the category list and the
\* requirement profile, tuned requirement values included, are as before.
SameTrackSwitchChangesNothing ==
    report.kind = "switch_same_track" => report.after = report.before

=============================================================================
